---- MODULE Spec2Model ----
(***************************************************************************)
(* Connection manager, resilient client wrappers and connection-error      *)
(* classifier of the firecracker-containerd runtime shim                   *)
(* (src/runtime/connection_manager.go, src/runtime/resilient_clients.go).  *)
(*                                                                         *)
(* Goroutines are the threads of the model.  A step of a thread is the     *)
(* code it runs between two points where other goroutines can observe or   *)
(* change the manager: acquiring cm.mu, a dial in flight, a backoff sleep, *)
(* an RPC in flight.  Error values are records carrying what               *)
(* isConnectionError inspects: the dynamic type, the net.Error flags, the  *)
(* RPC status code and the message, a sequence of characters.              *)
(***************************************************************************)
EXTENDS Integers, Sequences, FiniteSets, TLC

(* ------------------------------ bounds --------------------------------- *)

\* Number of goroutines calling into one ConnectionManager.
NThreads == 2

\* Number of transports the vsock peer accepts over one run.
MaxBundles == 2

\* The largest MaxRetries among the configurations tried besides the default one.
MaxRetriesTried == 3

\* Number of distinct task IDs passed to the task translator.
MaxIDs == 2

Threads == 1..NThreads

\* nil for a pointer (conn, rpcClient, clients, a returned bundle or result).
None == 0

(* ----------------------------- messages -------------------------------- *)

patRefused ==
    <<"c","o","n","n","e","c","t","i","o","n"," ","r","e","f","u","s","e","d">>
patReset ==
    <<"c","o","n","n","e","c","t","i","o","n"," ","r","e","s","e","t">>
patBrokenPipe ==
    <<"b","r","o","k","e","n"," ","p","i","p","e">>
patEOF ==
    <<"E","O","F">>
patLost ==
    <<"c","o","n","n","e","c","t","i","o","n"," ","l","o","s","t">>
patNoFile ==
    <<"n","o"," ","s","u","c","h"," ","f","i","l","e"," ","o","r"," ","d","i","r","e","c","t","o","r","y">>
patDeadlineUnknown ==
    <<"c","o","n","t","e","x","t"," ","d","e","a","d","l","i","n","e"," ","e","x","c","e","e","d","e","d",":"," ","u","n","k","n","o","w","n">>
msgInProgress ==
    <<"c","o","n","n","e","c","t","i","o","n"," ","a","t","t","e","m","p","t"," ","i","n"," ","p","r","o","g","r","e","s","s">>
msgExhaustedPre ==
    <<"f","a","i","l","e","d"," ","t","o"," ","e","s","t","a","b","l","i","s","h"," ","v","s","o","c","k"," ","c","o","n","n","e","c","t","i","o","n"," ","a","f","t","e","r"," ">>
msgExhaustedPost ==
    <<" ","a","t","t","e","m","p","t","s">>
msgDialPre ==
    <<"f","a","i","l","e","d"," ","t","o"," ","d","i","a","l"," ","V","M"," ","o","v","e","r"," ","v","s","o","c","k",":"," ">>
msgCanceled ==
    <<"c","o","n","t","e","x","t"," ","c","a","n","c","e","l","e","d">>
msgDeadline ==
    <<"c","o","n","t","e","x","t"," ","d","e","a","d","l","i","n","e"," ","e","x","c","e","e","d","e","d">>
msgTtrpcClosed ==
    <<"t","t","r","p","c",":"," ","c","l","o","s","e","d">>
msgRpcPre ==
    <<"r","p","c"," ","e","r","r","o","r",":"," ","c","o","d","e"," ","="," ">>
msgRpcDesc ==
    <<" ","d","e","s","c"," ","="," ">>
msgNotFound ==
    <<"t","a","s","k"," ","n","o","t"," ","f","o","u","n","d">>
msgAgentGone ==
    <<"a","g","e","n","t"," ","u","n","r","e","a","c","h","a","b","l","e">>

CodeName(code) ==
    CASE code = "Unavailable" -> <<"U","n","a","v","a","i","l","a","b","l","e">>
      [] code = "DeadlineExceeded" -> <<"D","e","a","d","l","i","n","e","E","x","c","e","e","d","e","d">>
      [] code = "Canceled" -> <<"C","a","n","c","e","l","e","d">>
      [] code = "NotFound" -> <<"N","o","t","F","o","u","n","d">>
      [] code = "Unknown" -> <<"U","n","k","n","o","w","n">>

RECURSIVE Itoa(_)
\* fmt's %d of an int.
Itoa(n) ==
    LET d == <<"0","1","2","3","4","5","6","7","8","9">>
    IN  IF n < 0 THEN <<"-">> \o Itoa(0 - n)
        ELSE IF n < 10 THEN <<d[n + 1]>>
        ELSE Itoa(n \div 10) \o <<d[(n % 10) + 1]>>

(* ------------------------------ errors --------------------------------- *)

\* The nil error.
NilErr == [type |-> "nil", timeout |-> FALSE, temporary |-> FALSE, code |-> "OK", msg |-> <<>>]

\* errors.New(msg) / fmt.Errorf(...): neither a net.Error nor an RPC status.
PlainErr(m) == [type |-> "plain", timeout |-> FALSE, temporary |-> FALSE, code |-> "Unknown", msg |-> m]

\* A value implementing net.Error.
NetErr(to, tmp, m) == [type |-> "net", timeout |-> to, temporary |-> tmp, code |-> "Unknown", msg |-> m]

\* An RPC status error; Error() is "rpc error: code = <code> desc = <desc>".
StatusErr(c, desc) ==
    [type |-> "status", timeout |-> FALSE, temporary |-> FALSE, code |-> c,
     msg |-> msgRpcPre \o CodeName(c) \o msgRpcDesc \o desc]

\* context.Canceled and context.DeadlineExceeded; the latter has Timeout() and
\* Temporary() methods returning true, so it is a net.Error.
ctxCanceled == PlainErr(msgCanceled)
ctxDeadlineExceeded == NetErr(TRUE, TRUE, msgDeadline)

\* ctx.Err() of a context in state c.
CtxErr(c) ==
    CASE c = "canceled" -> ctxCanceled
      [] c = "deadline" -> ctxDeadlineExceeded
      [] OTHER -> NilErr

connectionErrorPatterns ==
    {patRefused, patReset, patBrokenPipe, patEOF, patLost, patNoFile, patDeadlineUnknown}

\* errStr[len(errStr)-len(pattern):] == pattern, with the length guards.
HasSuffix(errStr, pattern) ==
    /\ Len(errStr) > 0
    /\ Len(pattern) > 0
    /\ Len(errStr) >= Len(pattern)
    /\ SubSeq(errStr, Len(errStr) - Len(pattern) + 1, Len(errStr)) = pattern

isConnectionError(err) ==
    IF err = NilErr THEN FALSE
    ELSE IF err.type = "net" THEN err.timeout \/ err.temporary
    ELSE IF err.type = "status" /\ err.code \in {"Unavailable", "DeadlineExceeded", "Canceled"}
         THEN TRUE
    ELSE \E pattern \in connectionErrorPatterns : HasSuffix(err.msg, pattern)

(* --------------------------- configuration ----------------------------- *)

(* time.Duration is an int64 count of nanoseconds and BackoffFactor a float64.
   Neither fits the integers of TLC, so a natural number is written as the
   sequence of its digits in base 2^15, least significant first and without
   leading zeros (zero is the empty sequence); a Duration is a sign and a
   magnitude; a float64 is a sign, a mantissa and an exponent of two. *)

\* The base of the digits and its number of bits.
LimbBits == 15
Base == 2^LimbBits

\* The natural numbers, as sequences of digits.
Natural == Seq(0..(Base - 1))

RECURSIVE Limbs(_)
\* The digits of the natural number n.
Limbs(n) == IF n = 0 THEN <<>> ELSE <<n % Base>> \o Limbs(n \div Base)

\* Digit i of a, and a without its lowest digit.
Limb(a, i) == IF i <= Len(a) THEN a[i] ELSE 0
Rest(a) == IF a = <<>> THEN <<>> ELSE Tail(a)

(* The operators below are functions applied to their arguments, so that an
   argument is evaluated once however often the body uses it. *)

\* x without leading zeros.
Trim(x) ==
    LET trim[a \in Natural] ==
            IF \A i \in 1..Len(a) : a[i] = 0 THEN <<>>
            ELSE SubSeq(a, 1, CHOOSE i \in 1..Len(a) :
                                a[i] # 0 /\ \A j \in (i + 1)..Len(a) : a[j] = 0)
    IN  trim[x]

\* x + y + z for a carry z of 0 or 1.
AddLimbs(x, y, z) ==
    LET add[a \in Natural, b \in Natural, c \in 0..1] ==
            IF a = <<>> /\ b = <<>>
            THEN IF c = 1 THEN <<1>> ELSE <<>>
            ELSE LET sum == Limb(a, 1) + Limb(b, 1) + c
                 IN  <<sum % Base>> \o add[Rest(a), Rest(b), sum \div Base]
    IN  add[x, y, z]

\* x * y + z for a digit y and a carry z below the base.
MulLimb(x, y, z) ==
    LET mul[a \in Natural, k \in 0..(Base - 1), c \in 0..(Base - 1)] ==
            IF a = <<>>
            THEN IF c = 0 THEN <<>> ELSE <<c>>
            ELSE LET p == a[1] * k + c
                 IN  <<p % Base>> \o mul[Tail(a), k, p \div Base]
    IN  mul[x, y, z]

\* x * y.
MulLimbs(x, y) ==
    LET mul[a \in Natural, b \in Natural] ==
            IF a = <<>> \/ b = <<>> THEN <<>>
            ELSE Trim(AddLimbs(MulLimb(a, b[1], 0), <<0>> \o mul[a, Tail(b)], 0))
    IN  mul[x, y]

\* x < y.
LessLimbs(x, y) ==
    LET less[a \in Natural, b \in Natural] ==
            IF Len(a) # Len(b) THEN Len(a) < Len(b)
            ELSE \E i \in 1..Len(a) :
                    /\ a[i] < b[i]
                    /\ \A j \in (i + 1)..Len(a) : a[j] = b[j]
    IN  less[x, y]

\* The number of bits of x.
BitLen(x) ==
    LET len[a \in Natural] ==
            IF a = <<>> THEN 0
            ELSE LimbBits * (Len(a) - 1)
                    + (CHOOSE k \in 1..LimbBits :
                            2^(k - 1) <= a[Len(a)] /\ a[Len(a)] < 2^k)
    IN  len[x]

\* x * 2^n, and x / 2^n rounded down.
ShiftLeft(x, n) ==
    LET shl[a \in Natural, k \in Nat] ==
            IF a = <<>> THEN <<>>
            ELSE [i \in 1..(k \div LimbBits) |-> 0] \o MulLimb(a, 2^(k % LimbBits), 0)
    IN  shl[x, n]
ShiftRight(x, n) ==
    LET shr[a \in Natural, k \in Nat] ==
            LET q == k \div LimbBits
                r == k % LimbBits
            IN  IF q >= Len(a) THEN <<>>
                ELSE Trim([i \in 1..(Len(a) - q) |->
                            (a[q + i] \div 2^r)
                                + (Limb(a, q + i + 1) % 2^r) * 2^(LimbBits - r)])
    IN  shr[x, n]

\* Bit n of x, the lowest being bit 1.
TestBit(x, n) ==
    LET bit[a \in Natural, i \in Nat] ==
            (Limb(a, ((i - 1) \div LimbBits) + 1) \div 2^((i - 1) % LimbBits)) % 2
    IN  bit[x, n]

\* 2^k.
PowerOfTwo(k) == ShiftLeft(<<1>>, k)

\* hi * 2^26 + lo, for numbers the integers of TLC cannot hold.
Wide(hi, lo) == AddLimbs(ShiftLeft(Limbs(hi), 26), Limbs(lo), 0)

\* The Duration of the given sign and magnitude; zero has no sign.
Duration(neg, mag) ==
    LET dur[n \in BOOLEAN, m \in Natural] == [neg |-> n /\ m # <<>>, mag |-> m]
    IN  dur[neg, mag]

\* The values of a sign and a magnitude, and the float64 values.
SignedValues == [neg : BOOLEAN, mag : Natural]
Float64Values == [neg : BOOLEAN, mant : Natural, exp : Int]

\* n * time.Nanosecond, n * time.Millisecond, n * time.Second for n >= 0.
Nanoseconds(n) == Duration(FALSE, Limbs(n))
Milliseconds(n) == Duration(FALSE, MulLimbs(Limbs(n), Limbs(1000000)))
Seconds(n) == Duration(FALSE, MulLimbs(Limbs(n), Limbs(1000000000)))

\* -d.
Negated(d) == Duration(~d.neg, d.mag)

\* The largest and the smallest time.Duration: 2^63 - 1 and -2^63.
MaxDuration == Duration(FALSE, [i \in 1..5 |-> IF i < 5 THEN Base - 1 ELSE 2^3 - 1])
MinDuration == Duration(TRUE, PowerOfTwo(63))

\* x < y and x <= y for Durations.
DurationLess(x, y) ==
    LET less[a \in SignedValues, b \in SignedValues] ==
            IF a.neg # b.neg THEN a.neg
            ELSE IF a.neg THEN LessLimbs(b.mag, a.mag)
            ELSE LessLimbs(a.mag, b.mag)
    IN  less[x, y]
DurationLeq(x, y) ==
    LET leq[a \in SignedValues, b \in SignedValues] == a = b \/ DurationLess(a, b)
    IN  leq[x, y]

\* The float64 (-1)^neg * mant * 2^exp, mant of at most 53 bits.
Float64(neg, mant, exp) == [neg |-> neg, mant |-> mant, exp |-> exp]

\* The float64 nearest to mag * 2^exp, ties to the even mantissa: the rounding of
\* every float64 operation.  (The exponent is not bounded: a product beyond the
\* largest float64 is +Inf or -Inf in the code, and outside the range of int64
\* either way.)
Round53(neg, mag, exp) ==
    LET round[m \in Natural, k \in Int] ==
            IF k <= 0 THEN Float64(neg, m, exp)
            ELSE LET up[kept \in Natural] ==
                        /\ TestBit(m, k) = 1
                        /\ \/ TestBit(kept, 1) = 1
                           \/ ShiftLeft(ShiftRight(m, k - 1), k - 1) # m
                     rounded[kept \in Natural] ==
                        IF up[kept] THEN AddLimbs(kept, <<>>, 1) ELSE kept
                 IN  Float64(neg, rounded[ShiftRight(m, k)], exp + k)
        bits[m \in Natural] == round[m, BitLen(m) - 53]
    IN  bits[mag]

\* float64(d) for a Duration d.
float64(d) ==
    LET conv[x \in SignedValues] == Round53(x.neg, x.mag, 0)
    IN  conv[d]

\* x * y for float64 values.
mulFloat64(x, y) ==
    LET mul[a \in Float64Values, b \in Float64Values] ==
            Round53(a.neg # b.neg, MulLimbs(a.mant, b.mant), a.exp + b.exp)
    IN  mul[x, y]

DefaultConnectionConfig ==
    [MaxRetries |-> 3, InitialBackoff |-> Milliseconds(100), MaxBackoff |-> Seconds(5),
     BackoffFactor |-> Float64(FALSE, Limbs(2), 0)]

(* ------------------------------- state --------------------------------- *)

VARIABLES
    cm,       \* the ConnectionManager: conn, rpcClient, clients, connecting, mu
    th,       \* per goroutine: position, locals of the call in progress, result
    nextId,   \* identity of the next transport / AgentClients allocated by connect
    closed,   \* transports on which Close() has been called
    config,   \* cm.config
    heap,     \* the maps of the task translator and the map its caller holds
    tcall,    \* the last call made on the task translator, with what it returned
    registered, \* the IDs ever passed to RegisterCloneMapping, by position
    cls       \* the error handed to isConnectionError, and its answer

vars == <<cm, th, nextId, closed, config, heap, tcall, registered, cls>>

\* The state of the task translator and of the classifier's caller, which no
\* operation of the connection manager or of the resilient clients touches.
others == <<heap, tcall, registered, cls>>

Ops == {"Connect", "GetClients", "MarkConnectionBroken", "Close", "Call"}

\* NewConnectionManager: no transport, no clients, not connecting, mu unlocked.
NewConnectionManager ==
    [conn |-> None, rpcClient |-> None, clients |-> None, connecting |-> FALSE,
     muWriter |-> None, muReaders |-> {}]

\* A goroutine outside any call.  The fields after err record what the call in
\* progress has done so far: dial attempts started by the current GetClients or
\* Connect, GetClients calls, RPCs issued and MarkConnectionBroken calls made by a
\* wrapper method, the errors its RPCs returned, the error its GetClients returned,
\* the bundle a direct MarkConnectionBroken call found installed and tore down,
\* the backoff delays the reconnect in progress has slept, the dial attempts
\* started after the context was cancelled.
IdleThread ==
    [pc |-> "idle", op |-> "none", ctx |-> "live", attempt |-> 0,
     backoff |-> Nanoseconds(0),
     wattempt |-> 0, clients |-> None, res |-> None, err |-> NilErr,
     dials |-> 0, gets |-> 0, rpcs |-> 0, marks |-> 0, rpcErrs |-> <<>>,
     getErr |-> NilErr, torn |-> None, slept |-> <<>>, cdials |-> 0]

\* make(map[string]string)
EmptyMap == [x \in {} |-> None]

\* NewTaskTranslator: both maps empty.  "result" is the map the caller holds,
\* the one returned by GetCloneMappings; nobody holds one before the first call.
NewTaskTranslator ==
    [externalToInternal |-> EmptyMap, internalToExternal |-> EmptyMap,
     result |-> EmptyMap]

\* No call made on the translator yet.  id and ok are the returned string and
\* bool; ref names the map the caller got from GetCloneMappings ("nil": none).
NoCall == [op |-> "none", a |-> None, b |-> None, id |-> None, ok |-> FALSE, ref |-> "nil"]

NeverRegistered == [external |-> {}, internal |-> {}]

\* isConnectionError not called yet.
NotClassified == [err |-> NilErr, called |-> FALSE, result |-> FALSE]

(* ----------------------------- sync.RWMutex ---------------------------- *)

\* Mutant: a lock that does not exclude another writer.
CanLockIgnoringWriter == cm.muReaders = {}

\* mu.Lock() returns only when no writer and no reader holds the lock.
CanLock == cm.muWriter = None /\ cm.muReaders = {}

\* mu.RLock() returns only when no writer holds the lock.
CanRLock == cm.muWriter = None

Lock(m, t) == [m EXCEPT !.muWriter = t]

\* Mutant: an Unlock that does not release the lock.
UnlockForgotten(m) == m

Unlock(m) == [m EXCEPT !.muWriter = None]

(* ----------------------------- environment ----------------------------- *)

\* What vsock.DialContext can fail with.
DialErrs == {PlainErr(patNoFile), ctxDeadlineExceeded}

\* Results of one vsock.DialContext for a caller whose thread record is r: NilErr is
\* a new connection.  A done context fails the dial with ctx.Err().
DialOutcomes(r) ==
    IF r.ctx = "live"
    THEN (IF nextId <= MaxBundles THEN {NilErr} ELSE {}) \cup DialErrs
    ELSE {CtxErr(r.ctx)}

\* Errors the agent's services and the ttrpc client return from a call.
RpcErrs ==
    {StatusErr("Unavailable", msgAgentGone), StatusErr("NotFound", msgNotFound)}

\* Results of one RPC issued on bundle r.clients with context r.ctx: NilErr is a
\* response.  A closed transport or a done context yields no response.
RpcOutcomes(r) ==
    IF r.ctx = "live"
    THEN (IF r.clients \in closed THEN {} ELSE {NilErr}) \cup RpcErrs
    ELSE {CtxErr(r.ctx), StatusErr(IF r.ctx = "canceled" THEN "Canceled" ELSE "DeadlineExceeded",
                                   CtxErr(r.ctx).msg)}

(* -------------------------- ConnectionManager -------------------------- *)

\* Mutant: connect storing the transport before it looks at the dial's error.
connectStoringOnFailure(m, e, b) ==
    IF e = NilErr THEN [m EXCEPT !.conn = b, !.rpcClient = b, !.clients = b]
    ELSE [m EXCEPT !.conn = b]

\* connect, given the dial's result e and the identity b of the new transport:
\* on success stores conn, rpcClient and clients; on failure stores nothing.
connect(m, e, b) ==
    IF e = NilErr THEN [m EXCEPT !.conn = b, !.rpcClient = b, !.clients = b] ELSE m

\* The error connect returns.
connectErr(e) == IF e = NilErr THEN NilErr ELSE PlainErr(msgDialPre \o e.msg)

\* Mutant: MarkConnectionBroken closing the transport but leaving the manager's
\* fields as they were.
markBrokenKeepingFields(m) == m

\* Mutant: cleanup without cm.clients = nil.
cleanupKeepingClients(m) == [m EXCEPT !.rpcClient = None, !.conn = None]

\* Mutant: cleanup without cm.conn = nil.
cleanupKeepingConn(m) == [m EXCEPT !.rpcClient = None, !.clients = None]

cleanup(m) == [m EXCEPT !.rpcClient = None, !.conn = None, !.clients = None]

\* The transports cleanup calls Close() on.
cleanupCloses(m) == {m.rpcClient, m.conn} \ {None}

\* Mutant: the test of MarkConnectionBroken inverted.
markBrokenInverted(m) == IF m.clients = None THEN cleanup(m) ELSE m

\* The body of MarkConnectionBroken under the lock: cleanup only if clients != nil.
markBroken(m) == IF m.clients # None THEN cleanup(m) ELSE m

\* The transports MarkConnectionBroken closes.
markBrokenCloses(m) == IF m.clients # None THEN cleanupCloses(m) ELSE {}

\* time.Duration(x) for a float64 x: truncation towards zero when the result is
\* an int64; otherwise the conversion is implementation-dependent: the smallest
\* Duration on amd64, the largest on arm64 for a value above the range.
convertDuration(x) ==
    LET range[q \in SignedValues] ==
            IF DurationLeq(MinDuration, q) /\ DurationLeq(q, MaxDuration)
            THEN {q}
            ELSE {MinDuration, MaxDuration}
        conv[f \in Float64Values] ==
            range[Duration(f.neg, IF f.exp >= 0 THEN ShiftLeft(f.mant, f.exp)
                                                ELSE ShiftRight(f.mant, 0 - f.exp))]
    IN  conv[x]

\* Mutant: the next backoff without the cap at MaxBackoff.
nextBackoffUncapped(backoff) ==
    convertDuration(mulFloat64(float64(backoff), config.BackoffFactor))

\* time.Duration(float64(backoff) * BackoffFactor), capped at MaxBackoff: the
\* values the next backoff can take.
nextBackoff(backoff) ==
    {IF DurationLess(config.MaxBackoff, nb) THEN config.MaxBackoff ELSE nb :
        nb \in convertDuration(mulFloat64(float64(backoff), config.BackoffFactor))}

\* Mutant: the loop stops one attempt early.
moreAttemptsOffByOne(attempt) == attempt < config.MaxRetries

\* The loop condition of the reconnect loop.
moreAttempts(attempt) == attempt <= config.MaxRetries

errInProgress == PlainErr(msgInProgress)

errExhausted == PlainErr(msgExhaustedPre \o Itoa(config.MaxRetries + 1) \o msgExhaustedPost)

(* ------------------------------ wrappers ------------------------------- *)

\* A call returns: the goroutine holds its result until it is collected.
Done(r, res, err) == [r EXCEPT !.pc = "done", !.res = res, !.err = err]

\* Mutant: the retry test without the attempt == 0 guard.
shouldRetryAnyAttempt(err, attempt) == isConnectionError(err)

\* Mutant: the retry test without the classification.
shouldRetryAnyError(err, attempt) == attempt = 0

\* isConnectionError(err) && attempt == 0
shouldRetry(err, attempt) == isConnectionError(err) /\ attempt = 0

\* Mutant: a connection error calls MarkConnectionBroken on the retry as well.
wrapperGotReplyAlwaysMarking(r, e) ==
    IF e = NilErr THEN Done(r, r.clients, NilErr)
    ELSE LET r1 == [r EXCEPT !.rpcErrs = Append(@, e)]
         IN  IF isConnectionError(e)
             THEN [r1 EXCEPT !.pc = "m_lock", !.marks = @ + 1]
             ELSE Done(r1, None, e)

\* Mutant: a GetClients error is retried instead of returned.
wrapperGotClientsRetrying(r, b, e) ==
    IF e # NilErr
    THEN IF r.wattempt = 0
         THEN [r EXCEPT !.getErr = e, !.wattempt = 1, !.pc = "g_rlock", !.gets = @ + 1, !.dials = 0]
         ELSE Done([r EXCEPT !.getErr = e], None, e)
    ELSE [r EXCEPT !.pc = "w_rpc", !.clients = b, !.rpcs = @ + 1, !.dials = 0]

\* A wrapper method after r.cm.GetClients(ctx) returned (b, e): the error is
\* returned at once, otherwise the RPC is issued on the bundle.
wrapperGotClients(r, b, e) ==
    IF e # NilErr
    THEN Done([r EXCEPT !.getErr = e], None, e)
    ELSE [r EXCEPT !.pc = "w_rpc", !.clients = b, !.rpcs = @ + 1, !.dials = 0]

\* A wrapper method after its RPC returned e: success returns the response (named
\* by the bundle that served it), a connection error on attempt 0 calls
\* MarkConnectionBroken, any other error is returned.
wrapperGotReply(r, e) ==
    IF e = NilErr THEN Done(r, r.clients, NilErr)
    ELSE LET r1 == [r EXCEPT !.rpcErrs = Append(@, e)]
         IN  IF shouldRetry(e, r.wattempt)
             THEN [r1 EXCEPT !.pc = "m_lock", !.marks = @ + 1]
             ELSE Done(r1, None, e)

\* A wrapper method after MarkConnectionBroken returned: continue, that is attempt++
\* and the loop test; past the loop the method returns context.DeadlineExceeded.
wrapperContinue(r) ==
    LET r1 == [r EXCEPT !.wattempt = @ + 1, !.torn = None]
    IN  IF r1.wattempt <= 1
        THEN [r1 EXCEPT !.pc = "g_rlock", !.gets = @ + 1, !.dials = 0, !.clients = None]
        ELSE Done(r1, None, ctxDeadlineExceeded)

\* GetClients returns (b, e) to its caller: a wrapper method or the goroutine itself.
getClientsReturn(r, b, e) ==
    LET r1 == [r EXCEPT !.attempt = 0, !.backoff = Nanoseconds(0), !.slept = <<>>]
    IN  IF r.op = "Call" THEN wrapperGotClients(r1, b, e) ELSE Done(r1, b, e)

(* ------------------------------- actions ------------------------------- *)

\* A goroutine calls one of the manager's operations or a wrapped RPC method with a
\* fresh context.
Invoke(t, o) ==
    /\ th[t].pc = "idle"
    /\ th' = [th EXCEPT ![t] =
                [IdleThread EXCEPT
                    !.op = o,
                    !.gets = IF o \in {"GetClients", "Call"} THEN 1 ELSE 0,
                    !.pc = CASE o = "Connect" -> "c_lock"
                             [] o = "MarkConnectionBroken" -> "m_lock"
                             [] o = "Close" -> "x_lock"
                             [] OTHER -> "g_rlock"]]
    /\ UNCHANGED <<cm, nextId, closed, config, others>>

\* The caller's context is cancelled or its deadline passes during the call.  The
\* code reads ctx only in a dial, in the backoff select and in an RPC, so a
\* cancellation at any other point of the call is the same as one on arrival there.
CancelCtx(t) ==
    /\ th[t].pc \in {"c_dial", "r_dial", "r_backoff", "w_rpc"}
    /\ th[t].ctx = "live"
    /\ \E c \in {"canceled", "deadline"} :
          th' = [th EXCEPT ![t].ctx = c]
    /\ UNCHANGED <<cm, nextId, closed, config, others>>

\* Mutant: Connect without the "already connected" test.
ConnectAlwaysDialing(t) ==
    /\ th[t].pc = "c_lock"
    /\ CanLock
    /\ th' = [th EXCEPT ![t].pc = "c_dial", ![t].dials = @ + 1]
    /\ cm' = Lock(cm, t)
    /\ UNCHANGED <<nextId, closed, config, others>>

\* Connect up to the dial: Lock, return nil if already connected, else start dialing
\* with the lock held.
Connect(t) ==
    /\ th[t].pc = "c_lock"
    /\ CanLock
    /\ IF cm.clients # None
       THEN /\ th' = [th EXCEPT ![t] = Done(@, None, NilErr)]
            /\ UNCHANGED cm
       ELSE /\ th' = [th EXCEPT ![t].pc = "c_dial", ![t].dials = @ + 1]
            /\ cm' = Lock(cm, t)
    /\ UNCHANGED <<nextId, closed, config, others>>

\* Connect from the dial's completion: connect stores or fails, the deferred Unlock
\* runs and the error of connect is returned.
ConnectDialed(t) ==
    /\ th[t].pc = "c_dial"
    /\ \E e \in DialOutcomes(th[t]) :
        /\ cm' = Unlock(connect(cm, e, nextId))
        /\ nextId' = IF e = NilErr THEN nextId + 1 ELSE nextId
        /\ th' = [th EXCEPT ![t] = Done(@, None, connectErr(e))]
    /\ UNCHANGED <<closed, config, others>>

\* GetClients: RLock.
GetClients(t) ==
    /\ th[t].pc = "g_rlock"
    /\ CanRLock
    /\ cm' = [cm EXCEPT !.muReaders = @ \cup {t}]
    /\ th' = [th EXCEPT ![t].pc = "g_read"]
    /\ UNCHANGED <<nextId, closed, config, others>>

\* Mutant: GetClients without the fast path, every call goes to reconnectIfNeeded.
GetClientsReadAlwaysSlow(t) ==
    /\ th[t].pc = "g_read"
    /\ cm' = [cm EXCEPT !.muReaders = @ \ {t}]
    /\ th' = [th EXCEPT ![t].pc = "r_lock"]
    /\ UNCHANGED <<nextId, closed, config, others>>

\* GetClients under the read lock: return the bundle if there is one, else RUnlock
\* and call reconnectIfNeeded.
GetClientsRead(t) ==
    /\ th[t].pc = "g_read"
    /\ cm' = [cm EXCEPT !.muReaders = @ \ {t}]
    /\ th' = [th EXCEPT ![t] =
                IF cm.clients # None
                THEN getClientsReturn(@, cm.clients, NilErr)
                ELSE [@ EXCEPT !.pc = "r_lock"]]
    /\ UNCHANGED <<nextId, closed, config, others>>

\* Mutant: the deferred connecting = false is missing.
reconnectExitKeepingFlag(m) == Unlock(m)

\* Mutant: the deferred Unlock is missing.
reconnectExitHoldingLock(m) == [m EXCEPT !.connecting = FALSE]

\* The deferred calls of the reconnect loop: connecting = false, then Unlock.
reconnectExit(m) == Unlock([m EXCEPT !.connecting = FALSE])

\* reconnectIfNeeded from a Lock() to the next point where it sleeps, dials or
\* returns.  At "r_lock" (line 151): the double check, the connecting test, then
\* claiming the flag and the loop test of attempt 0: the first dial, or, with a
\* negative MaxRetries, the exhaustion error at once (the flag is set and reset
\* with the lock held).  At "r_wait" (line 164, after the 50ms sleep taken with
\* the lock released): the second check.
reconnectIfNeeded(t) ==
    /\ th[t].pc \in {"r_lock", "r_wait"}
    /\ CanLock
    /\ IF cm.clients # None
       THEN /\ th' = [th EXCEPT ![t] = getClientsReturn(@, cm.clients, NilErr)]
            /\ UNCHANGED cm
       ELSE IF th[t].pc = "r_wait"
       THEN /\ th' = [th EXCEPT ![t] = getClientsReturn(@, None, errInProgress)]
            /\ UNCHANGED cm
       ELSE IF cm.connecting
       THEN /\ th' = [th EXCEPT ![t].pc = "r_wait"]
            /\ UNCHANGED cm
       ELSE IF moreAttempts(0)
       THEN /\ th' = [th EXCEPT ![t].pc = "r_dial", ![t].attempt = 0,
                                ![t].backoff = config.InitialBackoff,
                                ![t].dials = @ + 1]
            /\ cm' = [Lock(cm, t) EXCEPT !.connecting = TRUE]
       ELSE /\ th' = [th EXCEPT ![t] =
                        getClientsReturn([@ EXCEPT !.attempt = 0,
                                                   !.backoff = config.InitialBackoff],
                                         None, errExhausted)]
            /\ cm' = reconnectExit([Lock(cm, t) EXCEPT !.connecting = TRUE])
    /\ UNCHANGED <<nextId, closed, config, others>>

\* reconnectIfNeeded from the completion of an attempt's dial: on success return the
\* stored clients; on failure cleanup, attempt++ and either sleep the backoff (lock
\* held) or, past MaxRetries, return the exhaustion error.
reconnectDialed(t) ==
    /\ th[t].pc = "r_dial"
    /\ \E e \in DialOutcomes(th[t]) :
        LET m1 == connect(cm, e, nextId)
        IN  IF connectErr(e) = NilErr
            THEN /\ cm' = reconnectExit(m1)
                 /\ nextId' = nextId + 1
                 /\ closed' = closed
                 /\ th' = [th EXCEPT ![t] = getClientsReturn(@, m1.clients, NilErr)]
            ELSE /\ nextId' = nextId
                 /\ closed' = closed \cup cleanupCloses(m1)
                 /\ IF moreAttempts(th[t].attempt + 1)
                    THEN /\ cm' = cleanup(m1)
                         /\ th' = [th EXCEPT ![t].pc = "r_backoff", ![t].attempt = @ + 1]
                    ELSE /\ cm' = reconnectExit(cleanup(m1))
                         /\ th' = [th EXCEPT ![t] =
                                     getClientsReturn([@ EXCEPT !.attempt = @ + 1],
                                                      None, errExhausted)]
    /\ UNCHANGED <<config, others>>

\* reconnectIfNeeded in the select of a retry: ctx.Done() returns ctx.Err();
\* time.After(backoff) multiplies the backoff and starts the attempt's dial.
reconnectBackoff(t) ==
    /\ th[t].pc = "r_backoff"
    /\ \/ /\ th[t].ctx # "live"
          /\ cm' = reconnectExit(cm)
          /\ th' = [th EXCEPT ![t] = getClientsReturn(@, None, CtxErr(@.ctx))]
       \/ /\ \E nb \in nextBackoff(th[t].backoff) :
                th' = [th EXCEPT ![t].pc = "r_dial", ![t].backoff = nb,
                                 ![t].slept = Append(@, th[t].backoff),
                                 ![t].dials = @ + 1,
                                 ![t].cdials = IF th[t].ctx = "live" THEN @ ELSE @ + 1]
          /\ UNCHANGED cm
    /\ UNCHANGED <<nextId, closed, config, others>>

\* MarkConnectionBroken: Lock, cleanup if there are clients, Unlock; called from a
\* wrapper method, the method then continues its loop.
MarkConnectionBroken(t) ==
    /\ th[t].pc = "m_lock"
    /\ CanLock
    /\ cm' = markBroken(cm)
    /\ closed' = closed \cup markBrokenCloses(cm)
    /\ th' = [th EXCEPT ![t] =
                LET r == [@ EXCEPT !.torn = cm.clients]
                IN  IF r.op = "Call" THEN wrapperContinue(r) ELSE Done(r, None, NilErr)]
    /\ UNCHANGED <<nextId, config, others>>

\* Close: Lock, cleanup, Unlock, return nil.
Close(t) ==
    /\ th[t].pc = "x_lock"
    /\ CanLock
    /\ cm' = cleanup(cm)
    /\ closed' = closed \cup cleanupCloses(cm)
    /\ th' = [th EXCEPT ![t] = Done(@, None, NilErr)]
    /\ UNCHANGED <<nextId, config, others>>

\* The RPC a wrapper method issued completes.
RpcDone(t) ==
    /\ th[t].pc = "w_rpc"
    /\ \E e \in RpcOutcomes(th[t]) : th' = [th EXCEPT ![t] = wrapperGotReply(@, e)]
    /\ UNCHANGED <<cm, nextId, closed, config, others>>

\* The caller takes the result; the goroutine is free for another call.
Return(t) ==
    /\ th[t].pc = "done"
    /\ th' = [th EXCEPT ![t] = IdleThread]
    /\ UNCHANGED <<cm, nextId, closed, config, others>>

(* ---------------------------- specification ---------------------------- *)

Init ==
    /\ cm = NewConnectionManager
    /\ th = [t \in Threads |-> IdleThread]
    /\ nextId = 1
    /\ closed = {}
    /\ config = DefaultConnectionConfig
    /\ heap = NewTaskTranslator
    /\ tcall = NoCall
    /\ registered = NeverRegistered
    /\ cls = NotClassified

Next ==
    \E t \in Threads :
        \/ \E o \in Ops : Invoke(t, o)
        \/ Connect(t)
        \/ ConnectDialed(t)
        \/ GetClients(t)
        \/ GetClientsRead(t)
        \/ reconnectIfNeeded(t)
        \/ reconnectDialed(t)
        \/ reconnectBackoff(t)
        \/ MarkConnectionBroken(t)
        \/ Close(t)
        \/ RpcDone(t)
        \/ Return(t)

Spec == Init /\ [][Next]_vars

(* Goroutines call GetClients once each, concurrently, on a disconnected manager;
   nobody calls MarkConnectionBroken or Close.  The Go scheduler runs every runnable
   goroutine, a dial returns within its ConnectTimeout and a timer fires: the steps
   of a call in progress are weakly fair. *)

\* A goroutine calls GetClients while the manager has no bundle.
CallGetClients(t) == cm.clients = None /\ Invoke(t, "GetClients")

GetClientsStep(t) ==
    \/ GetClients(t)
    \/ GetClientsRead(t)
    \/ reconnectIfNeeded(t)
    \/ reconnectDialed(t)
    \/ reconnectBackoff(t)

NextN == \E t \in Threads : CallGetClients(t) \/ GetClientsStep(t)

SpecN == Init /\ [][NextN]_vars /\ \A t \in Threads : WF_vars(GetClientsStep(t))

(* Goroutines call GetClients on a disconnected manager built with any of a set of
   configurations, and the context of one of the calls can be cancelled, or its
   deadline can pass, while the call dials or sleeps a backoff. *)

\* The configuration of TestConnectionManager_Reconnection.
TestConnectionConfig ==
    [MaxRetries |-> 2, InitialBackoff |-> Milliseconds(10),
     MaxBackoff |-> Milliseconds(100), BackoffFactor |-> Float64(FALSE, Limbs(2), 0)]

\* The float64 values 2, 1.5, 1, 0.5, 2^62 and 0.57 (0x1.23d70a3d70a3dp-1).
Two == Float64(FALSE, Limbs(1), 1)
OneAndHalf == Float64(FALSE, Limbs(3), 0 - 1)
One == Float64(FALSE, Limbs(1), 0)
Half == Float64(FALSE, Limbs(1), 0 - 1)
TwoTo62 == Float64(FALSE, Limbs(1), 62)
PointFiveSeven == Float64(FALSE, Wide(76504104, 64424509), 0 - 53)

\* 2^53 + 1 ns, the least Duration that is not a float64.
Inexact == Duration(FALSE, AddLimbs(PowerOfTwo(53), <<1>>, 0))

\* InitialBackoff, MaxBackoff and BackoffFactor are whatever the caller of
\* NewConnectionManager passes: growing and capped, fractional, constant, zero, a
\* factor below one, an initial backoff above the maximum, a negative initial
\* backoff, a factor whose product leaves the range of time.Duration, a factor
\* that is no binary fraction, a backoff that float64 cannot hold.
BackoffSettings ==
    {[i |-> Nanoseconds(1), m |-> Nanoseconds(3), f |-> Two],
     [i |-> Nanoseconds(2), m |-> Nanoseconds(5), f |-> OneAndHalf],
     [i |-> Nanoseconds(3), m |-> Nanoseconds(3), f |-> One],
     [i |-> Nanoseconds(0), m |-> Nanoseconds(4), f |-> Two],
     [i |-> Nanoseconds(4), m |-> Nanoseconds(4), f |-> Half],
     [i |-> Nanoseconds(5), m |-> Nanoseconds(2), f |-> Two],
     [i |-> Negated(Nanoseconds(1)), m |-> Nanoseconds(4), f |-> Two],
     [i |-> Nanoseconds(4), m |-> Nanoseconds(4), f |-> TwoTo62],
     [i |-> Nanoseconds(100), m |-> Nanoseconds(1000), f |-> PointFiveSeven],
     [i |-> Inexact, m |-> Inexact, f |-> One]}

\* MaxRetries is whatever the caller passes too: negative, zero, positive.
Configs ==
    {DefaultConnectionConfig, TestConnectionConfig} \cup
    {[MaxRetries |-> n, InitialBackoff |-> b.i, MaxBackoff |-> b.m,
      BackoffFactor |-> b.f] : n \in (0 - 1)..MaxRetriesTried, b \in BackoffSettings}

InitR ==
    /\ config \in Configs
    /\ cm = NewConnectionManager
    /\ th = [t \in Threads |-> IdleThread]
    /\ nextId = 1
    /\ closed = {}
    /\ heap = NewTaskTranslator
    /\ tcall = NoCall
    /\ registered = NeverRegistered
    /\ cls = NotClassified

\* Every goroutine calls GetClients; the first one's context can be cancelled.
NextR ==
    \/ \E t \in Threads : CallGetClients(t) \/ GetClientsStep(t)
    \/ CancelCtx(1)

SpecR == InitR /\ [][NextR]_vars

(* isConnectionError is called once on an error drawn from: nil; errors that have
   only a message (errors.New, fmt.Errorf); net.Error values with each combination
   of Timeout() and Temporary(); status errors of each code.  The messages are the
   known strings alone, at the end of a longer message and followed by more text,
   the message of the classifier's test and the empty message. *)

msgOther == <<"s", "o", "m", "e", " ", "o", "t", "h", "e", "r", " ", "e", "r", "r", "o", "r">>

msgTrailer == <<" ", "(", "r", "e", "t", "r", "y", "i", "n", "g", ")">>

ClassifyMsgs ==
    {msgOther, <<>>} \cup
    UNION {{pattern, msgDialPre \o pattern, pattern \o msgTrailer} :
                pattern \in connectionErrorPatterns}

StatusCodes == {"Unavailable", "DeadlineExceeded", "Canceled", "NotFound", "Unknown"}

ClassifyInputs ==
    {NilErr} \cup
    {PlainErr(m) : m \in ClassifyMsgs} \cup
    {NetErr(to, tmp, m) : to \in BOOLEAN, tmp \in BOOLEAN, m \in ClassifyMsgs} \cup
    {StatusErr(c, m) : c \in StatusCodes, m \in ClassifyMsgs}

InitC ==
    /\ cls \in {[NotClassified EXCEPT !.err = e] : e \in ClassifyInputs}
    /\ config = DefaultConnectionConfig
    /\ cm = NewConnectionManager
    /\ th = [t \in Threads |-> IdleThread]
    /\ nextId = 1
    /\ closed = {}
    /\ heap = NewTaskTranslator
    /\ tcall = NoCall
    /\ registered = NeverRegistered

\* The call isConnectionError(cls.err).
Classify ==
    /\ ~cls.called
    /\ cls' = [cls EXCEPT !.called = TRUE, !.result = isConnectionError(cls.err)]
    /\ UNCHANGED <<cm, th, nextId, closed, config, heap, tcall, registered>>

NextC == Classify

SpecC == InitC /\ [][NextC]_vars

(* ---------------------------- task translator --------------------------- *)

\* Task IDs, external or internal: both are strings of the same kind.
IDs == 1..MaxIDs

\* m[k] = v
MapPut(m, k, v) == [x \in DOMAIN m \cup {k} |-> IF x = k THEN v ELSE m[x]]

\* delete(m, k)
MapDelete(m, k) == [x \in DOMAIN m \ {k} |-> m[x]]

\* Mutant: TranslateToInternal looking the ID up in the reverse map.
TranslateToInternalByReverse(h, externalID) ==
    IF externalID \in DOMAIN h.internalToExternal
    THEN h.internalToExternal[externalID]
    ELSE externalID

TranslateToInternal(h, externalID) ==
    IF externalID \in DOMAIN h.externalToInternal
    THEN h.externalToInternal[externalID]
    ELSE externalID

TranslateToExternal(h, internalID) ==
    IF internalID \in DOMAIN h.internalToExternal
    THEN h.internalToExternal[internalID]
    ELSE internalID

\* Mutant: RegisterCloneMapping keeping the mapping an external ID already has.
RegisterCloneMappingIfAbsent(h, externalID, internalID) ==
    IF externalID \in DOMAIN h.externalToInternal
    THEN h
    ELSE [h EXCEPT !.externalToInternal = MapPut(@, externalID, internalID),
                   !.internalToExternal = MapPut(@, internalID, externalID)]

RegisterCloneMapping(h, externalID, internalID) ==
    [h EXCEPT !.externalToInternal = MapPut(@, externalID, internalID),
              !.internalToExternal = MapPut(@, internalID, externalID)]

IsCloneTask(h, externalID) == externalID \in DOMAIN h.externalToInternal

\* Mutant: GetCloneMappings returning the translator's own map.
GetCloneMappingsReturningInternal == "externalToInternal"

\* The map GetCloneMappings returns: result, made by the call and filled with the
\* entries of externalToInternal.
GetCloneMappings == "result"

CallTranslateToInternal(externalID) ==
    /\ tcall' = [NoCall EXCEPT !.op = "TranslateToInternal", !.a = externalID,
                               !.id = TranslateToInternal(heap, externalID),
                               !.ref = tcall.ref]
    /\ UNCHANGED <<cm, th, nextId, closed, config, heap, registered, cls>>

CallTranslateToExternal(internalID) ==
    /\ tcall' = [NoCall EXCEPT !.op = "TranslateToExternal", !.a = internalID,
                               !.id = TranslateToExternal(heap, internalID),
                               !.ref = tcall.ref]
    /\ UNCHANGED <<cm, th, nextId, closed, config, heap, registered, cls>>

CallRegisterCloneMapping(externalID, internalID) ==
    /\ heap' = RegisterCloneMapping(heap, externalID, internalID)
    /\ registered' = [external |-> registered.external \cup {externalID},
                      internal |-> registered.internal \cup {internalID}]
    /\ tcall' = [NoCall EXCEPT !.op = "RegisterCloneMapping", !.a = externalID,
                               !.b = internalID, !.ref = tcall.ref]
    /\ UNCHANGED <<cm, th, nextId, closed, config, cls>>

CallIsCloneTask(externalID) ==
    /\ tcall' = [NoCall EXCEPT !.op = "IsCloneTask", !.a = externalID,
                               !.ok = IsCloneTask(heap, externalID),
                               !.ref = tcall.ref]
    /\ UNCHANGED <<cm, th, nextId, closed, config, heap, registered, cls>>

\* GetCloneMappings: result is a new map with the entries of externalToInternal;
\* the caller drops the map it held and holds the returned one.
CallGetCloneMappings ==
    /\ heap' = [heap EXCEPT !.result = heap.externalToInternal]
    /\ tcall' = [NoCall EXCEPT !.op = "GetCloneMappings", !.ref = GetCloneMappings]
    /\ UNCHANGED <<cm, th, nextId, closed, config, registered, cls>>

\* The caller of GetCloneMappings writes an entry into the map it was returned,
\* or deletes one from it.
ModifyReturned(k, v) ==
    /\ tcall.ref # "nil"
    /\ heap' = [heap EXCEPT ![tcall.ref] =
                    IF v = None THEN MapDelete(@, k) ELSE MapPut(@, k, v)]
    /\ tcall' = [NoCall EXCEPT !.op = "modify", !.ref = tcall.ref]
    /\ UNCHANGED <<cm, th, nextId, closed, config, registered, cls>>

\* Lookups and registrations on one translator.
NextT ==
    \/ \E x \in IDs : CallTranslateToInternal(x)
    \/ \E y \in IDs : CallTranslateToExternal(y)
    \/ \E e, i \in IDs : CallRegisterCloneMapping(e, i)
    \/ \E e \in IDs : CallIsCloneTask(e)

SpecT == Init /\ [][NextT]_vars

\* Registrations on one translator, and a caller that takes the mappings and
\* writes into the map it was returned.
NextG ==
    \/ \E e, i \in IDs : CallRegisterCloneMapping(e, i)
    \/ CallGetCloneMappings
    \/ \E k \in IDs, v \in IDs \cup {None} : ModifyReturned(k, v)

SpecG == Init /\ [][NextG]_vars

(* Goroutines call wrapped RPC methods on one manager, and the context of one of
   the calls can be cancelled, or its deadline can pass, while the call dials,
   sleeps a backoff or has its RPC in flight. *)

\* A goroutine calls a method of a resilient client.
CallWrapper(t) == Invoke(t, "Call")

NextW ==
    \/ \E t \in Threads :
            \/ CallWrapper(t)
            \/ GetClientsStep(t)
            \/ RpcDone(t)
            \/ MarkConnectionBroken(t)
            \/ Return(t)
    \/ CancelCtx(1)

SpecW == Init /\ [][NextW]_vars

(* Goroutines call any operation, each one call.  A goroutine that is runnable is
   run, a dial and an RPC return, a timer fires, and a goroutine blocked in Lock
   or RLock gets the lock when it stays free: while some call in progress can
   take a step, one of them does. *)

\* The steps of a call in progress.
CallStep(t) ==
    \/ Connect(t)
    \/ ConnectDialed(t)
    \/ GetClients(t)
    \/ GetClientsRead(t)
    \/ reconnectIfNeeded(t)
    \/ reconnectDialed(t)
    \/ reconnectBackoff(t)
    \/ MarkConnectionBroken(t)
    \/ Close(t)
    \/ RpcDone(t)

NextL == \E t \in Threads : (\E o \in Ops : Invoke(t, o)) \/ CallStep(t)

SpecL == Init /\ [][NextL]_vars /\ WF_vars(\E t \in Threads : CallStep(t))

(* ------------------------------- claims -------------------------------- *)

Last(s) == s[Len(s)]

\* C1: a wrapped RPC method whose call fails with a connection-level error on the
\* first attempt and again on the retry calls MarkConnectionBroken once, invokes the
\* underlying method twice and returns the second failure; no wrapper call ever
\* makes more than one MarkConnectionBroken call or more than two invocations.
C1_RetryAtMostOnce ==
    \A t \in Threads :
        LET r == th[t]
        IN  r.op = "Call" =>
              /\ r.marks <= 1
              /\ r.rpcs <= 2
              /\ Len(r.rpcErrs) <= 2
              /\ (Len(r.rpcErrs) = 2 /\ isConnectionError(r.rpcErrs[1])
                                     /\ isConnectionError(r.rpcErrs[2])) =>
                    /\ r.pc = "done"
                    /\ r.marks = 1
                    /\ r.rpcs = 2
                    /\ r.res = None
                    /\ r.err = r.rpcErrs[2]

\* A wrapper call has returned after two connection-level failures.
C1_Witness ==
    \E t \in Threads :
        /\ th[t].op = "Call" /\ th[t].pc = "done"
        /\ Len(th[t].rpcErrs) = 2
        /\ isConnectionError(th[t].rpcErrs[1]) /\ isConnectionError(th[t].rpcErrs[2])

\* C2: when the underlying call of a wrapped RPC method fails with an
\* application-level error, on the first attempt or on the retry, the step that
\* receives it returns that error to the caller: no MarkConnectionBroken, no further
\* invocation, and the manager's transport and bundle are as they were.
C2_AppErrorReturned ==
    [][\A t \in Threads :
          (/\ th[t].pc = "w_rpc"
           /\ th'[t].rpcErrs # th[t].rpcErrs
           /\ ~isConnectionError(Last(th'[t].rpcErrs)))
          => /\ th'[t].pc = "done"
             /\ th'[t].err = Last(th'[t].rpcErrs)
             /\ th'[t].res = None
             /\ th'[t].marks = th[t].marks
             /\ th'[t].rpcs = th[t].rpcs
             /\ th'[t].gets = th[t].gets
             /\ cm' = cm
             /\ closed' = closed]_vars

\* A wrapper call has returned an application-level error from its retry, and
\* another from its first attempt.
C2_Witness ==
    /\ \E t \in Threads :
        /\ th[t].op = "Call" /\ th[t].pc = "done"
        /\ Len(th[t].rpcErrs) = 2 /\ ~isConnectionError(th[t].rpcErrs[2])
        /\ th[t].err = th[t].rpcErrs[2]
    /\ \E t \in Threads :
        /\ th[t].op = "Call" /\ th[t].pc = "done"
        /\ Len(th[t].rpcErrs) = 1 /\ ~isConnectionError(th[t].rpcErrs[1])
        /\ cm.clients # None

\* C3: once GetClients has returned an error to a wrapped RPC method, on the first
\* attempt or on the retry, the method has returned that error: the RPC was not
\* invoked in that attempt and neither GetClients nor MarkConnectionBroken was
\* called again.
C3_GetClientsErrorReturned ==
    \A t \in Threads :
        LET r == th[t]
        IN  (r.op = "Call" /\ r.getErr # NilErr) =>
              /\ r.pc = "done"
              /\ r.err = r.getErr
              /\ r.res = None
              /\ r.rpcs = r.gets - 1
              /\ r.marks = r.gets - 1
              /\ r.gets <= 2

\* A wrapper call has returned the error of the GetClients of its retry while
\* another has returned the error of its first GetClients.
C3_Witness ==
    /\ \E t \in Threads :
        th[t].op = "Call" /\ th[t].getErr # NilErr /\ th[t].gets = 2 /\ th[t].rpcs = 1
    /\ \E t \in Threads :
        th[t].op = "Call" /\ th[t].getErr # NilErr /\ th[t].gets = 1 /\ th[t].rpcs = 0

\* The goroutines with a dial in flight, and those inside the reconnect loop.
Dialing == {t \in Threads : th[t].pc \in {"c_dial", "r_dial"}}
Reconnecting == {t \in Threads : th[t].pc \in {"r_dial", "r_backoff"}}

\* C4: at most one dial attempt is in flight and at most one goroutine is in the
\* reconnect loop, under any interleaving of Connect, GetClients,
\* MarkConnectionBroken, Close and wrapper calls.
C4_SingleFlight ==
    /\ Cardinality(Dialing) <= 1
    /\ Cardinality(Reconnecting \cup Dialing) <= 1

\* A dial is in flight while another goroutine's GetClients is on the slow path and
\* a Connect is pending.
C4_Witness ==
    \E t, u \in Threads :
        /\ t # u
        /\ th[t].pc = "r_dial" /\ th[t].attempt >= 1
        /\ th[u].pc \in {"r_lock", "c_lock"}

\* C5: when every goroutine calls GetClients at the same time on a disconnected
\* manager, every call eventually returns, and all calls that return a bundle
\* return the same one.
C5_AllReturnSameBundle ==
    /\ \A t \in Threads : (th[t].pc # "idle") ~> (th[t].pc = "done")
    /\ [](\A t, u \in Threads :
            (/\ th[t].pc = "done" /\ th[t].err = NilErr
             /\ th[u].pc = "done" /\ th[u].err = NilErr)
            => (th[t].res # None /\ th[t].res = th[u].res))

\* All calls have returned the bundle that one of them dialed after a failed
\* attempt of its own.
C5_Witness ==
    /\ \A t \in Threads : th[t].pc = "done" /\ th[t].err = NilErr /\ th[t].res = cm.clients
    /\ \E t \in Threads : th[t].dials >= 2
    /\ \E t \in Threads : th[t].dials = 0

\* C6: a GetClients call on the slow path while another goroutine's reconnect is in
\* progress (cm.connecting set) does not wait for that reconnect: it can take the
\* lock, and after the fixed delay returns the bundle or "connection attempt in
\* progress".
C6_NoWaitForReconnect ==
    \A t \in Threads : (th[t].pc = "r_lock" /\ cm.connecting) => CanLock

\* No transport, no RPC client, no bundle.
IsDisconnected(m) == m.conn = None /\ m.rpcClient = None /\ m.clients = None

\* Goroutine t's GetClients returns a bundle in this step, to the goroutine or to
\* the wrapper method that called it; ReturnedBundle is that bundle.
GetClientsReturnsBundle(t) ==
    /\ th[t].pc \in {"g_read", "r_lock", "r_wait", "r_dial"}
    /\ \/ th'[t].pc = "w_rpc"
       \/ th[t].op = "GetClients" /\ th'[t].pc = "done" /\ th'[t].err = NilErr
ReturnedBundle(t) == IF th'[t].pc = "w_rpc" THEN th'[t].clients ELSE th'[t].res

\* C7: MarkConnectionBroken called while a bundle B is installed closes B and leaves
\* the manager with no transport and no bundle; from then on no GetClients returns
\* B (a bundle that has been torn down is never returned), and a GetClients that
\* finds no bundle takes the slow path, which starts a dial attempt.
C7_MarkForcesReconnect ==
    [][\A t \in Threads :
          /\ (th[t].pc = "m_lock" /\ th'[t].pc # "m_lock" /\ cm.clients # None)
                => (IsDisconnected(cm') /\ cm.clients \in closed')
          /\ GetClientsReturnsBundle(t)
                => (ReturnedBundle(t) \notin closed' /\ ReturnedBundle(t) = cm'.clients)
          /\ (th[t].pc = "g_read" /\ th'[t].pc # "g_read" /\ cm.clients = None)
                => th'[t].pc = "r_lock"
          /\ (th[t].pc = "r_lock" /\ th'[t].pc # "r_lock" /\ cm.clients = None)
                => (th'[t].pc = "r_dial" /\ th'[t].dials = 1)
          /\ closed \subseteq closed']_vars

\* A MarkConnectionBroken has torn down bundle 1 and a GetClients has dialed and
\* returned bundle 2.
C7_Witness ==
    \E t, u \in Threads :
        /\ th[u].op = "MarkConnectionBroken" /\ th[u].pc = "done" /\ th[u].torn = 1
        /\ th[t].op = "GetClients" /\ th[t].pc = "done" /\ th[t].res = 2
        /\ th[t].dials >= 1

\* C8: MarkConnectionBroken always leaves the manager disconnected, and on a
\* disconnected manager it changes nothing; so any number of calls in a row, from
\* any goroutines, leave the state one call leaves.
C8_MarkIdempotent ==
    [][\A t \in Threads :
          (th[t].pc = "m_lock" /\ th'[t].pc # "m_lock")
          => /\ IsDisconnected(cm')
             /\ cm'.connecting = cm.connecting
             /\ cm'.muWriter = None /\ cm'.muReaders = cm.muReaders
             /\ nextId' = nextId
             /\ IsDisconnected(cm) => (cm' = cm /\ closed' = closed)]_vars

\* Two direct MarkConnectionBroken calls have returned: one tore a bundle down, the
\* other found the manager disconnected.
C8_Witness ==
    \E t, u \in Threads :
        /\ th[t].op = "MarkConnectionBroken" /\ th[t].pc = "done" /\ th[t].torn # None
        /\ th[u].op = "MarkConnectionBroken" /\ th[u].pc = "done" /\ th[u].torn = None
        /\ IsDisconnected(cm)
        /\ closed = {th[t].torn}

\* C9: Connect on a manager that has a bundle dials nothing, changes nothing and
\* returns nil; on a disconnected manager it makes one dial attempt, and if the
\* attempt fails it returns the error without another attempt and leaves the
\* manager disconnected.
C9_ConnectOnce ==
    [][\A t \in Threads :
          /\ (th[t].pc = "c_lock" /\ th'[t].pc # "c_lock")
                => IF cm.clients # None
                   THEN /\ th'[t].pc = "done" /\ th'[t].err = NilErr /\ th'[t].dials = 0
                        /\ cm' = cm /\ nextId' = nextId /\ closed' = closed
                   ELSE th'[t].pc = "c_dial" /\ th'[t].dials = 1
          /\ (th[t].pc = "c_dial" /\ th'[t].pc # "c_dial")
                => /\ th'[t].pc = "done" /\ th'[t].dials = 1
                   /\ IF th'[t].err # NilErr
                      THEN IsDisconnected(cm') /\ nextId' = nextId
                      ELSE /\ cm'.clients = nextId /\ cm'.conn = nextId
                           /\ cm'.rpcClient = nextId /\ nextId' = nextId + 1]_vars

\* A Connect has returned nil without dialing on a connected manager and another
\* has returned the error of its one dial attempt.
C9_Witness ==
    \E t, u \in Threads :
        /\ th[t].op = "Connect" /\ th[t].pc = "done" /\ th[t].dials = 0
        /\ th[t].err = NilErr /\ cm.clients # None
        /\ th[u].op = "Connect" /\ th[u].pc = "done" /\ th[u].dials = 1
        /\ th[u].err # NilErr

\* C10: Close returns nil and leaves the manager with no transport and no bundle,
\* having closed what was installed; the manager stays usable: a reconnect whose
\* dial succeeds installs and returns a bundle that was never closed.
C10_CloseReusable ==
    [][\A t \in Threads :
          /\ (th[t].pc = "x_lock" /\ th'[t].pc # "x_lock")
                => /\ th'[t].pc = "done" /\ th'[t].err = NilErr
                   /\ IsDisconnected(cm')
                   /\ cm'.muWriter = None
                   /\ ({cm.conn, cm.rpcClient, cm.clients} \ {None}) \subseteq closed'
          /\ (th[t].pc = "r_dial" /\ GetClientsReturnsBundle(t))
                => /\ ReturnedBundle(t) = nextId
                   /\ nextId \notin closed'
                   /\ cm'.clients = nextId /\ cm'.conn = nextId
                   /\ cm'.rpcClient = nextId]_vars

\* The manager has been connected, closed and connected again as often as the peer
\* accepts connections: every earlier bundle is closed, a Close has returned and a
\* GetClients has returned the last bundle.
C10_Witness ==
    \E t, u \in Threads :
        /\ th[u].op = "Close" /\ th[u].pc = "done"
        /\ th[t].op = "GetClients" /\ th[t].pc = "done" /\ th[t].res = MaxBundles
        /\ cm.clients = MaxBundles
        /\ closed = 1..(MaxBundles - 1)

\* C11: whenever no goroutine holds the manager's lock exclusively, the bundle is
\* present if and only if the connection and the RPC client are present, and
\* then the three belong to the same dial; a failed dial or a teardown leaves
\* none of them behind.
C11_BundleIffTransport ==
    cm.muWriter = None =>
        /\ (cm.clients # None) <=> (cm.conn # None /\ cm.rpcClient # None)
        /\ (cm.clients = None) <=> (cm.conn = None /\ cm.rpcClient = None)
        /\ cm.clients # None => (cm.conn = cm.clients /\ cm.rpcClient = cm.clients)

\* The lock is free after a Connect whose dial failed and a Close that tore an
\* installed transport down.
C11_Witness ==
    \E t, u \in Threads :
        /\ cm.muWriter = None
        /\ th[t].op = "Connect" /\ th[t].pc = "done" /\ th[t].err # NilErr
        /\ th[t].dials = 1
        /\ th[u].op = "Close" /\ th[u].pc = "done"
        /\ closed # {}

\* C12: a slow-path GetClients whose context stays live makes one dial attempt per
\* loop iteration; when every attempt fails it makes exactly MaxRetries + 1 of
\* them, then returns the attempts-exhausted error, the only error it can return,
\* and leaves the manager disconnected, not connecting and unlocked; when an
\* attempt succeeds it makes no further one and returns the bundle that attempt
\* stored.  With MaxRetries = -1 the call makes no attempt and returns the
\* attempts-exhausted error from the loop test of attempt 0.
C12_AttemptsExhausted ==
    [][\A t \in Threads :
        /\ (th[t].pc = "r_lock" /\ th'[t].pc = "done" /\ th'[t].err # NilErr)
          => /\ th'[t].err = errExhausted /\ th'[t].res = None
             /\ th'[t].dials = 0 /\ config.MaxRetries + 1 = 0
             /\ IsDisconnected(cm')
             /\ ~cm'.connecting /\ cm'.muWriter = None
        /\ (th[t].pc = "r_dial" /\ th'[t].pc # "r_dial" /\ th[t].ctx = "live")
          => /\ th[t].dials = th[t].attempt + 1
             /\ th'[t].dials = th[t].dials
             /\ \/ /\ th'[t].pc = "r_backoff"
                   /\ th[t].dials <= config.MaxRetries
                   /\ IsDisconnected(cm')
                \/ /\ th'[t].pc = "done" /\ th'[t].err = errExhausted
                   /\ th'[t].res = None
                   /\ th[t].dials = config.MaxRetries + 1
                   /\ IsDisconnected(cm')
                   /\ ~cm'.connecting /\ cm'.muWriter = None
                \/ /\ th'[t].pc = "done" /\ th'[t].err = NilErr
                   /\ th[t].dials <= config.MaxRetries + 1
                   /\ th'[t].res = nextId
                   /\ cm'.clients = nextId /\ cm'.conn = nextId
                   /\ ~cm'.connecting /\ cm'.muWriter = None]_vars

\* With a live context, one GetClients has returned the attempts-exhausted error
\* after MaxRetries + 1 > 2 failed dials and another has returned the bundle of its
\* second attempt.
C12_Witness ==
    \E t, u \in Threads :
        /\ th[t].pc = "done" /\ th[t].ctx = "live" /\ th[t].err = errExhausted
        /\ th[t].dials = config.MaxRetries + 1 /\ config.MaxRetries >= 2
        /\ th[u].pc = "done" /\ th[u].ctx = "live" /\ th[u].err = NilErr
        /\ th[u].dials = 2 /\ th[u].res = cm.clients /\ cm.clients # None

\* The delays s are non-decreasing and none exceeds MaxBackoff.
NonDecreasingCapped(s) ==
    \A i \in 1..Len(s) :
        /\ DurationLeq(s[i], config.MaxBackoff)
        /\ i > 1 => DurationLeq(s[i - 1], s[i])

\* The float64 x is at least 1.
AtLeastOne(x) ==
    /\ ~x.neg
    /\ x.mant # <<>>
    /\ x.exp < 0 => ShiftRight(x.mant, 0 - x.exp) # <<>>

\* A configuration whose backoff starts between zero and MaxBackoff, whose
\* MaxBackoff is below 2^53 ns (so that float64 holds every backoff exactly), whose
\* factor is at least one and whose products stay within the range of
\* time.Duration.
GrowingBackoffConfig ==
    /\ ~config.InitialBackoff.neg
    /\ DurationLeq(config.InitialBackoff, config.MaxBackoff)
    /\ BitLen(config.MaxBackoff.mag) <= 53
    /\ AtLeastOne(config.BackoffFactor)
    /\ convertDuration(mulFloat64(float64(config.MaxBackoff), config.BackoffFactor))
            # {MinDuration, MaxDuration}

\* C13 as stated: within one reconnect, the backoff delays slept before attempts
\* 1, 2, ... are non-decreasing and each is at most MaxBackoff, for every
\* configuration.
C13_BackoffNonDecreasingCapped ==
    \A t \in Threads : NonDecreasingCapped(th[t].slept)

\* C13, amended: within one reconnect, the backoff delays slept before attempts
\* 1, 2, ... are non-decreasing and each is at most MaxBackoff, for every
\* configuration with 0 <= InitialBackoff <= MaxBackoff < 2^53 ns,
\* BackoffFactor >= 1 and MaxBackoff * BackoffFactor within the range of
\* time.Duration.
C13_GrowingBackoffNonDecreasingCapped ==
    GrowingBackoffConfig => \A t \in Threads : NonDecreasingCapped(th[t].slept)

\* A reconnect under such a configuration has slept three delays, the first
\* shorter than the second and the last one cut down to MaxBackoff.
C13_Witness ==
    \E t \in Threads :
        /\ GrowingBackoffConfig
        /\ Len(th[t].slept) >= 3
        /\ DurationLess(th[t].slept[1], th[t].slept[2])
        /\ th[t].slept[Len(th[t].slept)] = config.MaxBackoff
        /\ \E nb \in convertDuration(mulFloat64(float64(th[t].slept[2]),
                                                 config.BackoffFactor)) :
                DurationLess(config.MaxBackoff, nb)

\* C14: once the caller's context has been cancelled while its GetClients was
\* reconnecting, in a backoff wait or in a dial attempt, the call starts no further
\* dial attempt, and when it returns it returns the context's error, never the
\* attempts-exhausted error.
C14_CancelStopsReconnect ==
    \A t \in Threads :
        th[t].ctx # "live" =>
            /\ th[t].cdials = 0
            /\ th[t].pc = "done" =>
                  (th[t].err = CtxErr(th[t].ctx) /\ th[t].err # errExhausted)

\* The message of err ends with one of the known connection-failure strings.
EndsWithKnownString(err) ==
    \E pattern \in connectionErrorPatterns :
        /\ Len(err.msg) >= Len(pattern)
        /\ \A k \in 1..Len(pattern) :
              err.msg[Len(err.msg) - Len(pattern) + k] = pattern[k]

\* C15: isConnectionError returns true for every error whose message ends with
\* "connection refused", "connection reset", "broken pipe", "EOF", "connection
\* lost", "no such file or directory" or "context deadline exceeded: unknown",
\* whatever the error's type; it returns false for a nil error and for an error
\* that has only an unrelated message.
C15_KnownSuffixIsConnectionError ==
    cls.called =>
        /\ (cls.err # NilErr /\ EndsWithKnownString(cls.err)) => cls.result
        /\ cls.err = NilErr => ~cls.result
        /\ cls.err = PlainErr(msgOther) => ~cls.result

\* err exposes timeout or temporary-failure semantics; err carries one of the
\* three RPC status codes.
ExposesTimeoutOrTemporary(err) == err.type = "net" /\ (err.timeout \/ err.temporary)
CarriesConnectionCode(err) ==
    err.type = "status" /\ err.code \in {"Unavailable", "DeadlineExceeded", "Canceled"}

\* C16: isConnectionError(err) is true exactly when err exposes transport-level
\* timeout or temporary-failure semantics, or carries an RPC status code among
\* Unavailable, DeadlineExceeded and Canceled, or has a message that ends with a
\* known connection-failure string; it is false for every other error, one whose
\* message contains a known string elsewhere than at its end included.
C16_ExactlyThreeSignals ==
    cls.called =>
        (cls.result <=>
            /\ cls.err # NilErr
            /\ \/ ExposesTimeoutOrTemporary(cls.err)
               \/ CarriesConnectionCode(cls.err)
               \/ EndsWithKnownString(cls.err))

\* C17: after any sequence of RegisterCloneMapping calls, TranslateToInternal(x)
\* is x for every ID x never registered as an external ID and TranslateToExternal(y)
\* is y for every ID y never registered as an internal ID, and a call just made
\* on such an ID has returned it.
C17_IdentityWhenNeverRegistered ==
    /\ \A x \in IDs \ registered.external : TranslateToInternal(heap, x) = x
    /\ \A y \in IDs \ registered.internal : TranslateToExternal(heap, y) = y
    /\ (tcall.op = "TranslateToInternal" /\ tcall.a \notin registered.external)
            => tcall.id = tcall.a
    /\ (tcall.op = "TranslateToExternal" /\ tcall.a \notin registered.internal)
            => tcall.id = tcall.a

\* TranslateToInternal has just returned unchanged an ID that was registered as an
\* internal ID only, while other IDs are mapped.
C17_Witness ==
    /\ tcall.op = "TranslateToInternal"
    /\ tcall.a \in registered.internal \ registered.external
    /\ tcall.id = tcall.a
    /\ heap.internalToExternal[tcall.a] # tcall.a
    /\ registered.external # {}

\* C18: immediately after RegisterCloneMapping(e, i), whatever was registered
\* before, TranslateToInternal(e) is i, TranslateToExternal(i) is e and
\* IsCloneTask(e) is true; IsCloneTask(u) is false for every ID u never registered
\* as an external ID, and a call just made on such an ID has returned false.
C18_LastWriteWins ==
    /\ tcall.op = "RegisterCloneMapping" =>
            /\ TranslateToInternal(heap, tcall.a) = tcall.b
            /\ TranslateToExternal(heap, tcall.b) = tcall.a
            /\ IsCloneTask(heap, tcall.a)
    /\ \A u \in IDs \ registered.external : ~IsCloneTask(heap, u)
    /\ (tcall.op = "IsCloneTask" /\ tcall.a \notin registered.external) => ~tcall.ok

\* RegisterCloneMapping(e, i) has just returned for an external ID e that was
\* mapped to another internal ID before, while some ID was never registered as an
\* external ID.
C18_Witness ==
    /\ tcall.op = "RegisterCloneMapping"
    /\ \E i \in DOMAIN heap.internalToExternal :
            i # tcall.b /\ heap.internalToExternal[i] = tcall.a
    /\ IDs \ registered.external # {}

\* C19: after any sequence of RegisterCloneMapping calls the two maps are mutually
\* consistent: externalToInternal maps e to i if and only if internalToExternal
\* maps i to e.
C19_MapsMutuallyConsistent ==
    \A e \in IDs, i \in IDs :
        (e \in DOMAIN heap.externalToInternal /\ heap.externalToInternal[e] = i)
        <=> (i \in DOMAIN heap.internalToExternal /\ heap.internalToExternal[i] = e)

\* C20: GetCloneMappings returns a map other than the translator's own, equal to
\* externalToInternal at the time of the call; a later RegisterCloneMapping does
\* not change the map the caller holds, and a write of the caller into that map
\* changes neither externalToInternal nor internalToExternal, hence not what
\* TranslateToInternal, IsCloneTask or a later GetCloneMappings return.
C20_GetCloneMappingsCopies ==
    [][/\ tcall'.op = "GetCloneMappings" =>
            /\ tcall'.ref \notin {"nil", "externalToInternal", "internalToExternal"}
            /\ heap'[tcall'.ref] = heap.externalToInternal
            /\ heap'.externalToInternal = heap.externalToInternal
            /\ heap'.internalToExternal = heap.internalToExternal
       /\ (tcall'.op = "RegisterCloneMapping" /\ tcall.ref # "nil") =>
            heap'[tcall.ref] = heap[tcall.ref]
       /\ tcall'.op = "modify" =>
            /\ heap'.externalToInternal = heap.externalToInternal
            /\ heap'.internalToExternal = heap.internalToExternal
            /\ \A x \in IDs :
                  /\ TranslateToInternal(heap', x) = TranslateToInternal(heap, x)
                  /\ IsCloneTask(heap', x) = IsCloneTask(heap, x)]_vars

\* The caller has written into the map it was returned: the map lacks an entry
\* that externalToInternal has and differs from it on another.
C20_Witness ==
    /\ tcall.ref = "result"
    /\ tcall.op = "modify"
    /\ DOMAIN heap.externalToInternal = IDs
    /\ DOMAIN heap.result # IDs
    /\ \E k \in DOMAIN heap.result : heap.result[k] # heap.externalToInternal[k]

\* C21: while a reconnecting goroutine waits in a backoff sleep it does not hold
\* the manager's exclusive lock, so that Connect, GetClients, MarkConnectionBroken
\* and Close called by other goroutines during the wait can take the lock and
\* complete.
C21_BackoffWithoutLock ==
    \A t \in Threads : th[t].pc = "r_backoff" => (cm.muWriter # t /\ CanRLock)

\* C22: the reconnect flag is false whenever no goroutine is in the reconnect
\* loop; every step that takes a goroutine out of the loop (success, attempts
\* exhausted, context cancelled) leaves it false; a GetClients that returns
\* from the slow path without entering the loop (bundle found by the double
\* check, or "connection attempt in progress") leaves the flag as it was.
C22_FlagClearedOnExit ==
    /\ [](Reconnecting = {} => ~cm.connecting)
    /\ [][\A t \in Threads :
            /\ (t \in Reconnecting /\ th'[t].pc \notin {"r_dial", "r_backoff"})
                    => ~cm'.connecting
            /\ (th[t].pc \in {"r_lock", "r_wait"}
                    /\ th'[t].pc \notin {"r_lock", "r_wait", "r_dial"})
                    => cm'.connecting = cm.connecting]_vars

\* One reconnect has ended on its cancelled context and another on exhausted
\* attempts, and the flag is false.
C22_Witness ==
    \E t, u \in Threads :
        /\ th[t].pc = "done" /\ th[t].ctx # "live" /\ th[t].err = CtxErr(th[t].ctx)
        /\ th[t].dials >= 1
        /\ th[u].pc = "done" /\ th[u].ctx = "live" /\ th[u].err = errExhausted
        /\ ~cm.connecting

\* C23: a GetClients that finds a bundle installed under its read lock returns
\* exactly that bundle in that step, without a dial attempt, and neither of its two
\* steps changes the connection, the RPC client, the bundle, the reconnect flag,
\* the writer of the lock or the set of closed transports.
C23_FastPathFrame ==
    [][\A t \in Threads :
          /\ (th[t].pc = "g_read" /\ th'[t].pc # "g_read" /\ cm.clients # None)
                => /\ GetClientsReturnsBundle(t)
                   /\ ReturnedBundle(t) = cm.clients
                   /\ th'[t].dials = 0
          /\ (th[t].pc \in {"g_rlock", "g_read"} /\ th'[t].pc # th[t].pc)
                => /\ cm'.conn = cm.conn /\ cm'.rpcClient = cm.rpcClient
                   /\ cm'.clients = cm.clients /\ cm'.connecting = cm.connecting
                   /\ cm'.muWriter = cm.muWriter
                   /\ nextId' = nextId /\ closed' = closed]_vars

\* Two GetClients calls have returned the installed bundle, neither having dialed:
\* somebody else established it.
C23_Witness ==
    \E t, u \in Threads :
        /\ t # u
        /\ th[t].op = "GetClients" /\ th[t].pc = "done" /\ th[t].dials = 0
        /\ th[u].op = "GetClients" /\ th[u].pc = "done" /\ th[u].dials = 0
        /\ th[t].res = cm.clients /\ th[u].res = cm.clients /\ cm.clients # None

\* What an RPC fails with when only the caller's context ended it: the context's
\* error, or the RPC status Canceled or DeadlineExceeded.
CallerCancelErrs ==
    {ctxCanceled, ctxDeadlineExceeded,
     StatusErr("Canceled", msgCanceled), StatusErr("DeadlineExceeded", msgDeadline)}

\* C24: a wrapper call whose RPC failed only because the caller's context was
\* cancelled or its deadline passed makes no MarkConnectionBroken call and does not
\* issue the RPC again.
C24_CallerCancelNotMarked ==
    \A t \in Threads :
        LET r == th[t]
        IN  (/\ r.op = "Call" /\ r.ctx # "live"
             /\ Len(r.rpcErrs) >= 1 /\ r.rpcErrs[1] \in CallerCancelErrs)
            => (r.marks = 0 /\ r.rpcs = 1)

\* C25: the MarkConnectionBroken call a wrapper method makes for the failure it
\* saw on bundle B1 closes nothing but B1: a bundle established by a reconnect
\* after B1 was torn down is not closed by it.
C25_MarkTearsOnlyFailedBundle ==
    [][\A t \in Threads :
          (th[t].op = "Call" /\ th[t].pc = "m_lock" /\ th'[t].pc # "m_lock")
          => (closed' \ closed) \subseteq {th[t].clients}]_vars

\* C26: a wrapper method has its RPC in flight only on a bundle that has not been
\* torn down: from the moment GetClients returned the bundle to the completion of
\* the RPC no MarkConnectionBroken or Close of another goroutine closes it.
C26_NoRpcOnTornBundle ==
    \A t \in Threads : th[t].pc = "w_rpc" => th[t].clients \notin closed

\* Goroutine t's wrapper call has returned a connection-level error of an RPC, the
\* one it made on bundle th[t].clients.
ReturnedConnectionError(t) ==
    /\ th[t].op = "Call" /\ th[t].pc = "done"
    /\ th[t].rpcErrs # <<>> /\ th[t].err = Last(th[t].rpcErrs)
    /\ isConnectionError(th[t].err)

\* C27 as stated: whenever a wrapper call has returned a connection-level error
\* it observed on bundle B, on the first attempt or on the retry, B is not
\* installed in the manager.
C27_FailedBundleNotInstalled ==
    \A t \in Threads : ReturnedConnectionError(t) => cm.clients # th[t].clients

\* C27, amended: whenever a wrapper call observes a connection-level error on
\* bundle B on its first attempt, B is closed and the manager holds no bundle when
\* the call's MarkConnectionBroken returns; a closed bundle is never installed, so
\* no later GetClients hands out B.  (A connection-level error of the retry is
\* returned with no teardown.)
C27_FirstFailureTornDown ==
    /\ [](cm.clients \notin closed)
    /\ [][/\ closed \subseteq closed'
          /\ \A t \in Threads :
                (th[t].op = "Call" /\ th[t].pc = "m_lock" /\ th'[t].pc # "m_lock")
                => /\ isConnectionError(Last(th[t].rpcErrs))
                   /\ Len(th[t].rpcErrs) = 1
                   /\ th[t].clients \in closed'
                   /\ cm'.clients = None]_vars

\* A wrapper call has returned the connection-level error of its retry: the bundle
\* of its first attempt is closed, the bundle of the retry is still installed.
C27_Witness ==
    \E t \in Threads :
        /\ ReturnedConnectionError(t)
        /\ Len(th[t].rpcErrs) = 2 /\ th[t].marks = 1
        /\ cm.clients = th[t].clients
        /\ closed # {} /\ th[t].clients \notin closed

\* C28: an error returned by a wrapper method is the error GetClients returned
\* to it or the error of the last RPC it issued; the loop never runs past its
\* second iteration, so the return after the loop is never taken.
C28_FallbackNeverReturned ==
    \A t \in Threads :
        LET r == th[t]
        IN  r.op = "Call" =>
              /\ r.wattempt <= 1
              /\ (r.pc = "done" /\ r.err # NilErr) =>
                    \/ r.getErr # NilErr /\ r.err = r.getErr
                    \/ /\ r.getErr = NilErr /\ r.rpcErrs # <<>>
                       /\ r.err = Last(r.rpcErrs) /\ Len(r.rpcErrs) = r.rpcs

\* A wrapper call has returned context.DeadlineExceeded, the value of the return
\* after the loop, but as the error of the GetClients of its retry.
C28_Witness ==
    \E t \in Threads :
        /\ th[t].op = "Call" /\ th[t].pc = "done"
        /\ th[t].err = ctxDeadlineExceeded
        /\ th[t].wattempt = 1 /\ th[t].getErr = ctxDeadlineExceeded
        /\ th[t].marks = 1

\* The lock is held by goroutines that took it and have not released it: its
\* writer is inside Connect or the reconnect loop, its readers are inside the fast
\* path of GetClients, and a writer excludes readers.
LockBalanced ==
    /\ cm.muWriter # None =>
            /\ cm.muWriter \in Threads
            /\ th[cm.muWriter].pc \in {"c_dial", "r_dial", "r_backoff"}
            /\ cm.muReaders = {}
    /\ \A t \in Threads :
            /\ t \in cm.muReaders <=> th[t].pc = "g_read"
            /\ th[t].pc \in {"c_dial", "r_dial", "r_backoff"} => cm.muWriter = t

\* C29: under any interleaving of Connect, GetClients, MarkConnectionBroken, Close
\* and wrapper calls the lock is released exactly by those who hold it, and, every
\* dial and RPC returning, every call returns, with the lock not held by the
\* caller.
C29_NoDeadlock ==
    /\ []LockBalanced
    /\ \A t \in Threads : (th[t].pc # "idle") ~> (th[t].pc = "done")

\* Every call has returned and the lock is free, one of them a wrapper call that
\* retried and another a direct call that returned an error.
C29_Witness ==
    /\ \A t \in Threads : th[t].pc = "done"
    /\ cm.muWriter = None /\ cm.muReaders = {}
    /\ \E t \in Threads : th[t].op = "Call" /\ th[t].marks = 1
    /\ \E t \in Threads : th[t].op \in {"Connect", "GetClients"} /\ th[t].err # NilErr

\* C30: after any sequence of RegisterCloneMapping calls, translation round-trips
\* for every clone task: for every external ID e with IsCloneTask(e),
\* TranslateToExternal(TranslateToInternal(e)) is e.
C30_CloneRoundTrip ==
    \A e \in IDs :
        IsCloneTask(heap, e) =>
            TranslateToExternal(heap, TranslateToInternal(heap, e)) = e

====
